---- MODULE Spec2Model ----
(***************************************************************************)
(* A model of rerl's stack VM (src/src/vm.rs): the supervisor (PID         *)
(* counter, mailbox registry, quiescence Notify, the mutex around them),   *)
(* the per-process interpreter loop of run_process, and the driver run().  *)
(*                                                                         *)
(* Granularity.  A critical section of the supervisor mutex that contains  *)
(* no await is one step.  The top-level exit is two steps (remove under    *)
(* the lock, then notify_one and unlock) because the driver polls the      *)
(* Notify without the lock.  Send is two steps (pop and clone the sender   *)
(* under the lock, then sender.send(..).await) because the recipient can   *)
(* run, fill up or exit between them.  The prologue of run_process is a    *)
(* step of its own: tokio::spawn only queues the task.                      *)
(*                                                                         *)
(* i64 and u64 values stay far below their width in every program below,   *)
(* so arithmetic is modelled on the integers.                               *)
(***************************************************************************)
EXTENDS Integers, Sequences, FiniteSets, TLC

VARIABLES
    prog,        \* which Module the host handed to VM::new
    debug,       \* build profile: TRUE iff debug_assertions are compiled in
    next_pid,    \* VMInner.next_pid
    channels,    \* VMInner.channels: the set of PIDs that have a Sender entry
    notify,      \* VMInner.process_exited: "EMPTY" | "WAITING" | "NOTIFIED"
    poisoned,    \* the Mutex around VMInner is poisoned
    procs,       \* pid -> the locals of that run_process task
    mailbox,     \* pid -> queue of the mpsc channel created for pid
    driver_pc,   \* position of run()
    sent,        \* history: pid -> the messages its Send instructions built
    received,    \* history: pid -> the queue entries its Receive took
    assigned     \* history: the PIDs spawn_process returned, in order

vars == <<prog, debug, next_pid, channels, notify, poisoned, procs, mailbox,
          driver_pc, sent, received, assigned>>

-----------------------------------------------------------------------------
(* Bounds of the programs handed to the VM. *)

\* number of workers the fan-out program spawns
Workers == 3

\* argument of fib in the fib program
FibArg == 2

\* the largest PID whose task the model schedules; no program below spawns
\* that many processes
MaxPid == 5

Pids == 0..MaxPid

-----------------------------------------------------------------------------
(* data.rs: Value, Message *)

IntV(n) == [t |-> "Int", v |-> n]
StrV(s) == [t |-> "Str", v |-> s]
PidV(p) == [t |-> "Pid", v |-> p]

\* mutant of ValueEq: values of different variants compare equal
ValueEqAcrossVariants(a, b) == a.t = b.t => a.v = b.v

\* #[derive(PartialEq)] on Value: same variant and equal contents
ValueEq(a, b) == a.t = b.t /\ a.v = b.v

Message(name, value) == [name |-> name, value |-> value]

-----------------------------------------------------------------------------
(* program.rs: Instruction, Function, Module *)

IPrint == [op |-> "Print"]
IPushLiteral(v) == [op |-> "PushLiteral", v |-> v]
IDup(i) == [op |-> "Dup", i |-> i]
IPop == [op |-> "Pop"]
ISwap(i) == [op |-> "Swap", i |-> i]
IJump(d) == [op |-> "Jump", dest |-> d]
IJumpIfEqual(d, c) == [op |-> "JumpIfEqual", dest |-> d, cond |-> c]
ICall(name) == [op |-> "Call", name |-> name]
IReturn == [op |-> "Return"]
IAdd == [op |-> "Add"]
IMul == [op |-> "Mul"]
ISpawn(name) == [op |-> "Spawn", name |-> name]
IReceive == [op |-> "Receive"]
ISend(name) == [op |-> "Send", name |-> name]

Function(arg_count, stack_size, instructions) ==
    [arg_count |-> arg_count, stack_size |-> stack_size,
     instructions |-> instructions]

-----------------------------------------------------------------------------
(* The modules the host hands to VM::new (main.rs builds one such module). *)
(* Each maps function names to Functions; jump targets are instruction     *)
(* indices counted from 0, as in the source.                                *)

\* main.rs "fibproc": compute fib of the argument, send it to PID 0
FibprocFn ==
    Function(1, 3, << ICall("fib"), IPushLiteral(PidV(0)), ISwap(1),
                      ISend("result"), IReturn >>)

\* main.rs "show"
ShowFn == Function(1, 1, << IPrint, IReturn >>)

\* main.rs "fib"
FibFn ==
    Function(1, 5, <<
        IDup(0), IJumpIfEqual(16, IntV(0)),
        IDup(0), IJumpIfEqual(16, IntV(1)),
        IDup(0), IPushLiteral(IntV(-1)), IAdd, ICall("fib"),
        IDup(1), IPushLiteral(IntV(-2)), IAdd, ICall("fib"),
        IAdd, ISwap(1), IPop, IReturn,
        IPop, IPushLiteral(IntV(1)), IReturn >>)

\* main.rs with one worker and one answer: spawn fibproc(FibArg), show it
FibModule ==
    [ init |-> Function(0, 3, << IPushLiteral(IntV(FibArg)), ISpawn("fibproc"),
                                 IPop, IReceive, ICall("show"), IPop,
                                 IReturn >>),
      fibproc |-> FibprocFn, show |-> ShowFn, fib |-> FibFn ]

\* init counts down from Workers, spawning a worker that returns at once
FanoutModule ==
    [ init |-> Function(0, 2, << IPushLiteral(IntV(Workers)),
                                 ISpawn("worker"), IPop,
                                 IPushLiteral(IntV(-1)), IAdd, IDup(0),
                                 IJumpIfEqual(8, IntV(0)), IJump(1),
                                 IPop, IReturn >>),
      worker |-> Function(0, 0, << IReturn >>) ]

\* a child spawns a grandchild while init is already returning
QuiesceModule ==
    [ init |-> Function(0, 1, << ISpawn("child"), IPop, IReturn >>),
      child |-> Function(0, 1, << ISpawn("grandchild"), IPop, IReturn >>),
      grandchild |-> Function(0, 0, << IReturn >>) ]

\* two senders send two messages each to PID 0, which multiplies the payloads
FifoModule ==
    [ init |-> Function(0, 3, << ISpawn("sender"), IPop, ISpawn("sender"), IPop,
                                 IReceive, ISwap(1), IPop,
                                 IReceive, ISwap(1), IPop, IMul,
                                 IReceive, ISwap(1), IPop, IMul,
                                 IReceive, ISwap(1), IPop, IMul,
                                 IPrint, IReturn >>),
      sender |-> Function(0, 2, << IPushLiteral(PidV(0)), IPushLiteral(IntV(2)),
                                   ISend("first"),
                                   IPushLiteral(PidV(0)), IPushLiteral(IntV(3)),
                                   ISend("second"), IReturn >>) ]

\* a sender that loops sending to PID 0, which takes one message and then
\* spins without ever receiving again
FloodModule ==
    [ init |-> Function(0, 2, << ISpawn("flooder"), IPop, IReceive, IPop, IPop,
                                 IJump(5) >>),
      flooder |-> Function(0, 2, << IPushLiteral(PidV(0)),
                                    IPushLiteral(IntV(7)), ISend("m"),
                                    IJump(0) >>) ]

\* the parent sends to the PID that Spawn just pushed
GreetModule ==
    [ init |-> Function(0, 2, << ISpawn("child"), IPushLiteral(IntV(5)),
                                 ISend("hello"), IReturn >>),
      child |-> Function(0, 2, << IReceive, IPop, IPop, IReturn >>) ]

\* init calls a function the module does not have
BadCallModule ==
    [ init |-> Function(0, 1, << ISpawn("child"), IPop, ICall("nope"),
                                 IReturn >>),
      child |-> Function(0, 0, << IReturn >>) ]

\* init adds a string to an int
BadAddModule ==
    [ init |-> Function(0, 2, << ISpawn("child"), IPop,
                                 IPushLiteral(StrV("x")), IPushLiteral(IntV(1)),
                                 IAdd, IReturn >>),
      child |-> Function(0, 0, << IReturn >>) ]

\* a function that declares stack_size 1 and pushes past it
OverflowModule ==
    [ init |-> Function(0, 1, << IPushLiteral(IntV(1)), IDup(0),
                                 IPushLiteral(IntV(2)), IPop, IPop, IPop,
                                 IReturn >>) ]

\* a function whose instructions end without a Return
NoReturnModule ==
    [ init |-> Function(0, 1, << IPushLiteral(IntV(1)), IPop >>) ]

\* a module without an init function
NoInitModule ==
    [ worker |-> Function(0, 0, << IReturn >>) ]

\* init sends to a PID that was never handed out
BadSendModule ==
    [ init |-> Function(0, 2, << ISpawn("child"), IPop, IPushLiteral(PidV(7)),
                                 IPushLiteral(IntV(1)), ISend("m"),
                                 IReturn >>),
      child |-> Function(0, 0, << IReturn >>) ]

\* init sends to a child that returns at once: the child may exit before
\* the lookup, between the lookup and the delivery, or after it
LateSendModule ==
    [ init |-> Function(0, 2, << ISpawn("child"), IPushLiteral(IntV(5)),
                                 ISend("late"), IReturn >>),
      child |-> Function(0, 0, << IReturn >>) ]

\* the flood, but PID 0 returns after taking one message
FloodExitModule ==
    [ init |-> Function(0, 2, << ISpawn("flooder"), IPop, IReceive, IPop, IPop,
                                 IReturn >>),
      flooder |-> Function(0, 2, << IPushLiteral(PidV(0)),
                                    IPushLiteral(IntV(7)), ISend("m"),
                                    IJump(0) >>) ]

\* init returns from its top-level frame with a value left on its stack
LeftoverModule ==
    [ init |-> Function(0, 1, << IPushLiteral(IntV(1)), IReturn >>) ]

\* an init that declares one argument; run() spawns it with none
ArgfulModule ==
    [ init |-> Function(1, 1, << IPushLiteral(IntV(1)), IPop, IReturn >>) ]

\* JumpIfEqual against another variant with the same contents, against the
\* same variant with other contents, against an equal value, and against a
\* Str when the top is an Int
JumpModule ==
    [ init |-> Function(0, 1, << IPushLiteral(PidV(0)),
                                 IJumpIfEqual(10, IntV(0)),
                                 IPushLiteral(StrV("a")),
                                 IJumpIfEqual(10, StrV("b")),
                                 IPushLiteral(IntV(0)),
                                 IJumpIfEqual(7, IntV(0)),
                                 IPushLiteral(IntV(9)),
                                 IPushLiteral(IntV(4)),
                                 IJumpIfEqual(10, StrV("4")),
                                 IReturn,
                                 IReturn >>) ]

\* Swap at the bottom, twice, at depth 0 and at depth 1
SwapModule ==
    [ init |-> Function(0, 3, << IPushLiteral(IntV(1)), IPushLiteral(StrV("b")),
                                 IPushLiteral(PidV(3)),
                                 ISwap(2), ISwap(2), ISwap(0), ISwap(1),
                                 IPop, IPop, IPop, IReturn >>) ]

Programs ==
    [ fib |-> FibModule, fanout |-> FanoutModule, quiesce |-> QuiesceModule,
      fifo |-> FifoModule, flood |-> FloodModule, greet |-> GreetModule,
      badcall |-> BadCallModule, badadd |-> BadAddModule,
      overflow |-> OverflowModule, noreturn |-> NoReturnModule,
      noinit |-> NoInitModule, badsend |-> BadSendModule,
      latesend |-> LateSendModule, floodexit |-> FloodExitModule,
      leftover |-> LeftoverModule, argful |-> ArgfulModule,
      jump |-> JumpModule, swap |-> SwapModule ]

\* VMInner.module
Module == Programs[prog]

\* Module::get_function: Some(f) is modelled as <<f>>, None as << >>
get_function(name) ==
    IF name \in DOMAIN Module THEN << Module[name] >> ELSE << >>

-----------------------------------------------------------------------------
(* vm.rs: the supervisor's state and the pieces of its critical sections *)

\* channel(10): the capacity of every mailbox
Capacity == 10

\* mutant of NextPidAfter: the increment is forgotten
NextPidStuck(n) == n

\* pid = inner.next_pid; inner.next_pid += 1: the counter after handing out n
NextPidAfter(n) == n + 1

\* mutant of Insert: the Sender is not registered by spawn_process
InsertSkipped(chs, pid) == chs

\* inner.channels.insert(pid, chan.0)
Insert(chs, pid) == chs \cup {pid}

\* mutant of Remove: the exiting process leaves its entry behind
RemoveSkipped(chs, pid) == chs

\* mutant of Remove: the exiting process clears the registry
RemoveAll(chs, pid) == {}

\* inner.channels.remove(&pid)
Remove(chs, pid) == chs \ {pid}

\* mutant of IsEmpty: the loop stops while one entry is left
IsEmptyButOne(chs) == Cardinality(chs) <= 1

\* inner.channels.is_empty(), the loop condition of run()
IsEmpty(chs) == chs = {}

\* mutant of HasSender: the lookup never misses
HasSenderAlways(chs, pid) == TRUE

\* inner.channels.get(&pid): is there a Sender to clone
HasSender(chs, pid) == pid \in chs

\* mutant of notify_one: a permit is stored even when a waiter was woken
notify_one_leaves_permit(state) == "NOTIFIED"

\* mutant of notify_one: a notification without a waiter is lost, as with a
\* condition variable
notify_one_without_permit(state) ==
    IF state = "WAITING" THEN "EMPTY" ELSE state

\* Notify::notify_one: with a registered waiter the waiter is woken and no
\* permit is stored; otherwise one permit is stored (a second one coalesces)
notify_one(state) == IF state = "WAITING" THEN "EMPTY" ELSE "NOTIFIED"

\* the locals of a run_process task that tokio::spawn has queued
NewProcess(function_name, args) ==
    [ status |-> "spawned", function |-> function_name, next_instr |-> 0,
      stack |-> args, frame_stack |-> << >>, pending |-> << >> ]

\* a panic unwinds the task: its future, and with it the Receiver, is dropped
Panicked(pr) == [pr EXCEPT !.status = "panicked"]

\* mutant of LockFree: a sender keeps the guard across send(message).await
LockHeldAcrossSend ==
    \A q \in DOMAIN procs : procs[q].status \notin {"exiting", "sending"}

\* the std Mutex is free: only a task inside its top-level exit holds it
\* across two steps
LockFree == \A q \in DOMAIN procs : procs[q].status # "exiting"

\* mutant of ReceiverDropped: a channel never reports its Receiver gone
ReceiverNeverDropped(pid) == FALSE

\* the Receiver of pid's channel has been dropped (its task ended)
ReceiverDropped(pid) ==
    pid \in DOMAIN procs => procs[pid].status \in {"exited", "panicked"}

\* some Sender of pid's channel exists: the registry's, or a clone held by a
\* task inside sender.send(..).await
SenderExists(pid) ==
    \/ pid \in channels
    \/ \E q \in DOMAIN procs :
          procs[q].status = "sending" /\ procs[q].pending[1].to = pid

-----------------------------------------------------------------------------
(* vm.rs run_process: the interpreter loop *)

Top(s) == s[Len(s)]
ButTop(s) == SubSeq(s, 1, Len(s) - 1)

\* Vec::split_off(at): << what stays, what is split off >>
split_off(s, at) == << SubSeq(s, 1, at), SubSeq(s, at + 1, Len(s)) >>

\* mutant of SwapTop: the old top is not written back at depth i
SwapTopNoWriteBack(s, i) == Append(ButTop(s), s[Len(s) - i])

\* the Swap(i) arm for i # 0 and len > i
SwapTop(s, i) ==
    LET l == Len(s)
        t == Top(s)
        pushed == Append(ButTop(s), s[l - i])
    IN  [pushed EXCEPT ![l - i] = t]

\* the Dup(i) arm for len > i
DupAt(s, i) == Append(s, s[Len(s) - i])

\* parent.stack.append(&mut stack)
AppendAll(parent_stack, stack) == parent_stack \o stack

Instructions(pr) == Module[pr.function].instructions
StackSize(pr) == Module[pr.function].stack_size

Running(p) == p \in DOMAIN procs /\ procs[p].status = "running"

\* let instr = &instructions[next_instr] succeeds and is `op`
Executing(p, op) ==
    /\ Running(p)
    /\ procs[p].next_instr < Len(Instructions(procs[p]))
    /\ Instructions(procs[p])[procs[p].next_instr + 1].op = op

Instr(p) == Instructions(procs[p])[procs[p].next_instr + 1]

\* next_instr += 1, done before the match
Fetched(p) == [procs[p] EXCEPT !.next_instr = @ + 1]

\* everything but the process table
OnlyProcs ==
    UNCHANGED <<prog, debug, next_pid, channels, notify, poisoned, mailbox,
                driver_pc, sent, received, assigned>>

\* let instr = &instructions[next_instr] with next_instr past the end: the
\* slice index panics
FetchPastEnd(p) ==
    /\ Running(p)
    /\ procs[p].next_instr >= Len(Instructions(procs[p]))
    /\ procs' = [procs EXCEPT ![p] = Panicked(@)]
    /\ OnlyProcs

\* Print: pop and print; an empty stack fails the debug_assert or the unwrap
PrintInstr(p) ==
    /\ Executing(p, "Print")
    /\ LET pr == Fetched(p) IN
       procs' = [procs EXCEPT ![p] =
                    IF pr.stack = << >> THEN Panicked(pr)
                    ELSE [pr EXCEPT !.stack = ButTop(@)]]
    /\ OnlyProcs

\* PushLiteral(v): the bound is a debug_assert only
PushLiteral(p) ==
    /\ Executing(p, "PushLiteral")
    /\ LET pr == Fetched(p) IN
       procs' = [procs EXCEPT ![p] =
                    IF debug /\ ~(Len(pr.stack) < StackSize(pr))
                    THEN Panicked(pr)
                    ELSE [pr EXCEPT !.stack = Append(@, Instr(p).v)]]
    /\ OnlyProcs

Pop(p) ==
    /\ Executing(p, "Pop")
    /\ LET pr == Fetched(p) IN
       procs' = [procs EXCEPT ![p] =
                    IF pr.stack = << >> THEN Panicked(pr)
                    ELSE [pr EXCEPT !.stack = ButTop(@)]]
    /\ OnlyProcs

\* Swap(i): with len <= i the debug_assert fails; without debug assertions
\* i = 0 does nothing at all and i # 0 panics in pop().unwrap() or the index
Swap(p) ==
    /\ Executing(p, "Swap")
    /\ LET pr == Fetched(p)
           i == Instr(p).i
       IN  procs' = [procs EXCEPT ![p] =
                        IF debug /\ ~(Len(pr.stack) > i) THEN Panicked(pr)
                        ELSE IF i = 0 THEN pr
                        ELSE IF ~(Len(pr.stack) > i) THEN Panicked(pr)
                        ELSE [pr EXCEPT !.stack = SwapTop(@, i)]]
    /\ OnlyProcs

\* Dup(i): with len <= i the debug_assert fails, or len - i - 1 wraps and the
\* index panics; nothing compares the length with stack_size
Dup(p) ==
    /\ Executing(p, "Dup")
    /\ LET pr == Fetched(p)
           i == Instr(p).i
       IN  procs' = [procs EXCEPT ![p] =
                        IF ~(Len(pr.stack) > i) THEN Panicked(pr)
                        ELSE [pr EXCEPT !.stack = DupAt(@, i)]]
    /\ OnlyProcs

Jump(p) ==
    /\ Executing(p, "Jump")
    /\ procs' = [procs EXCEPT ![p] = [Fetched(p) EXCEPT !.next_instr = Instr(p).dest]]
    /\ OnlyProcs

JumpIfEqual(p) ==
    /\ Executing(p, "JumpIfEqual")
    /\ LET pr == Fetched(p) IN
       procs' = [procs EXCEPT ![p] =
                    IF pr.stack = << >> THEN Panicked(pr)
                    ELSE IF ValueEq(Instr(p).cond, Top(pr.stack))
                    THEN [pr EXCEPT !.stack = ButTop(@),
                                    !.next_instr = Instr(p).dest]
                    ELSE [pr EXCEPT !.stack = ButTop(@)]]
    /\ OnlyProcs

\* the match of Add and Mul: a is popped first
Arith(pr, op) ==
    IF Len(pr.stack) < 2 THEN Panicked(pr)
    ELSE LET a == pr.stack[Len(pr.stack)]
             b == pr.stack[Len(pr.stack) - 1]
             rest == SubSeq(pr.stack, 1, Len(pr.stack) - 2)
         IN  IF a.t = "Int" /\ b.t = "Int"
             THEN [pr EXCEPT !.stack =
                      Append(rest, IntV(IF op = "Add" THEN a.v + b.v
                                        ELSE a.v * b.v))]
             ELSE Panicked(pr)

Add(p) ==
    /\ Executing(p, "Add")
    /\ procs' = [procs EXCEPT ![p] = Arith(Fetched(p), "Add")]
    /\ OnlyProcs

Mul(p) ==
    /\ Executing(p, "Mul")
    /\ procs' = [procs EXCEPT ![p] = Arith(Fetched(p), "Mul")]
    /\ OnlyProcs

\* VM::spawn_process, called with the process table `base` of its caller:
\* allocate the PID and register the Sender under the lock, queue the task
spawn_process(function_name, args, base) ==
    LET pid == next_pid IN
    /\ next_pid' = NextPidAfter(next_pid)
    /\ channels' = Insert(channels, pid)
    /\ mailbox' = (pid :> << >>) @@ mailbox
    /\ procs' = (pid :> NewProcess(function_name, args)) @@ base
    /\ sent' = (pid :> << >>) @@ sent
    /\ received' = (pid :> << >>) @@ received
    /\ assigned' = Append(assigned, pid)

\* the prologue of run_process: resolve the function under the lock (the
\* expect panics with the guard alive, which poisons the mutex), check the
\* argument count in debug builds, start at instruction 0
StartProcess(p) ==
    /\ p \in DOMAIN procs /\ procs[p].status = "spawned"
    /\ LockFree
    /\ LET pr == procs[p]
           f == get_function(pr.function)
       IN  IF poisoned \/ f = << >>
           THEN /\ procs' = [procs EXCEPT ![p] = Panicked(pr)]
                /\ poisoned' = TRUE
           ELSE /\ procs' = [procs EXCEPT ![p] =
                      IF debug /\ f[1].arg_count # Len(pr.stack)
                      THEN Panicked(pr)
                      ELSE [pr EXCEPT !.status = "running"]]
                /\ UNCHANGED poisoned
    /\ UNCHANGED <<prog, debug, next_pid, channels, notify, mailbox, driver_pc,
                   sent, received, assigned>>

\* the Call arm after the lookup: split off the arguments, push the current
\* frame (next_instr already points after the Call), enter the callee
EnterCallee(pr, name, arg_count) ==
    LET parts == split_off(pr.stack, Len(pr.stack) - arg_count) IN
    [pr EXCEPT !.frame_stack = Append(@, [function |-> pr.function,
                                           next_instr |-> pr.next_instr,
                                           stack |-> parts[1]]),
               !.function = name,
               !.next_instr = 0,
               !.stack = parts[2]]

Call(p) ==
    /\ Executing(p, "Call")
    /\ LockFree
    /\ LET pr == Fetched(p)
           f == get_function(Instr(p).name)
       IN  IF poisoned \/ f = << >>
           THEN /\ procs' = [procs EXCEPT ![p] = Panicked(pr)]
                /\ poisoned' = TRUE
           ELSE /\ procs' = [procs EXCEPT ![p] =
                      IF Len(pr.stack) < f[1].arg_count THEN Panicked(pr)
                      ELSE EnterCallee(pr, Instr(p).name, f[1].arg_count)]
                /\ UNCHANGED poisoned
    /\ UNCHANGED <<prog, debug, next_pid, channels, notify, mailbox, driver_pc,
                   sent, received, assigned>>

\* mutant of ResumeParent: the parent's stack is appended to the callee's
ResumeParentPrepending(pr) ==
    LET parent == pr.frame_stack[Len(pr.frame_stack)] IN
    [pr EXCEPT !.frame_stack = SubSeq(@, 1, Len(@) - 1),
               !.function = parent.function,
               !.next_instr = parent.next_instr,
               !.stack = pr.stack \o parent.stack]

\* the Return arm with a parent frame: append the stack to the parent's and
\* resume the parent at its saved next_instr
ResumeParent(pr) ==
    LET parent == Top(pr.frame_stack) IN
    [pr EXCEPT !.frame_stack = ButTop(@),
               !.function = parent.function,
               !.next_instr = parent.next_instr,
               !.stack = AppendAll(parent.stack, pr.stack)]

\* Return.  With an empty frame_stack the process exits: debug_assert the
\* stack is empty, take the lock, remove the registry entry.  The lock is
\* still held when this step ends; ExitNotify is the rest.
Return(p) ==
    /\ Executing(p, "Return")
    /\ LET pr == Fetched(p) IN
       IF pr.frame_stack # << >>
       THEN /\ procs' = [procs EXCEPT ![p] = ResumeParent(pr)]
            /\ UNCHANGED <<channels, poisoned>>
       ELSE IF debug /\ pr.stack # << >>
       THEN /\ procs' = [procs EXCEPT ![p] = Panicked(pr)]
            /\ UNCHANGED <<channels, poisoned>>
       ELSE /\ LockFree
            /\ IF poisoned
               THEN /\ procs' = [procs EXCEPT ![p] = Panicked(pr)]
                    /\ UNCHANGED <<channels, poisoned>>
               ELSE /\ procs' = [procs EXCEPT ![p] =
                                    [pr EXCEPT !.status = "exiting"]]
                    /\ channels' = Remove(channels, p)
                    /\ UNCHANGED poisoned
    /\ UNCHANGED <<prog, debug, next_pid, notify, mailbox, driver_pc, sent,
                   received, assigned>>

\* inner.process_exited.notify_one(), unlock, return: a waiting driver is
\* woken, otherwise the permit is stored; the task ends and drops its Receiver
ExitNotify(p) ==
    /\ p \in DOMAIN procs /\ procs[p].status = "exiting"
    /\ notify' = notify_one(notify)
    /\ driver_pc' = IF notify = "WAITING" THEN "check" ELSE driver_pc
    /\ procs' = [procs EXCEPT ![p].status = "exited"]
    /\ UNCHANGED <<prog, debug, next_pid, channels, poisoned, mailbox, sent,
                   received, assigned>>

\* Spawn(name): look the function up, split off its arguments, spawn_process,
\* push the new PID.  The lookup and spawn_process take the lock one after
\* the other; nothing the process does in between is visible to others.
Spawn(p) ==
    /\ Executing(p, "Spawn")
    /\ LockFree
    /\ LET pr == Fetched(p)
           f == get_function(Instr(p).name)
       IN  IF poisoned \/ f = << >>
           THEN /\ procs' = [procs EXCEPT ![p] = Panicked(pr)]
                /\ poisoned' = TRUE
                /\ UNCHANGED <<next_pid, channels, mailbox, sent, received,
                               assigned>>
           ELSE IF Len(pr.stack) < f[1].arg_count
           THEN /\ procs' = [procs EXCEPT ![p] = Panicked(pr)]
                /\ UNCHANGED <<poisoned, next_pid, channels, mailbox, sent,
                               received, assigned>>
           ELSE LET parts == split_off(pr.stack,
                                       Len(pr.stack) - f[1].arg_count)
                    after == [pr EXCEPT !.stack =
                                 Append(parts[1], PidV(next_pid))]
                IN  /\ spawn_process(Instr(p).name, parts[2],
                                     [procs EXCEPT ![p] = after])
                    /\ UNCHANGED poisoned
    /\ UNCHANGED <<prog, debug, notify, driver_pc>>

\* mutant of PushMessage: the payload is pushed before the name
PushMessageValueFirst(stack, m) ==
    Append(Append(stack, m.value), StrV(m.name))

\* the two pushes of Receive: the name as a Str, then the payload on top
PushMessage(stack, m) == Append(Append(stack, StrV(m.name)), m.value)

\* Receive: receiver.recv().await yields the head of the queue; on an empty
\* queue it waits while any Sender exists and yields None (the expect panics)
\* once there is none.  Nothing compares the length with stack_size.
Receive(p) ==
    /\ Executing(p, "Receive")
    /\ LET pr == Fetched(p) IN
       IF mailbox[p] # << >>
       THEN /\ procs' = [procs EXCEPT ![p] =
                   [pr EXCEPT !.stack = PushMessage(@, Head(mailbox[p]))]]
            /\ mailbox' = [mailbox EXCEPT ![p] = Tail(@)]
            /\ received' = [received EXCEPT ![p] = Append(@, Head(mailbox[p]))]
       ELSE /\ ~SenderExists(p)
            /\ procs' = [procs EXCEPT ![p] = Panicked(pr)]
            /\ UNCHANGED <<mailbox, received>>
    /\ UNCHANGED <<prog, debug, next_pid, channels, notify, poisoned, driver_pc,
                   sent, assigned>>

\* a queue entry: the Message { name, value } of the source, tagged for the
\* history variables with its sender, the sender's running count of Sends,
\* and the PID it was addressed to
Envelope(name, value, from, seq, to) ==
    [name |-> name, value |-> value, from |-> from, seq |-> seq, to |-> to]

\* Send(name) up to the await: pop the payload, pop the Pid, build the
\* message, clone the Sender under the lock (the expect panics with the
\* guard alive, which poisons the mutex)
Send(p) ==
    /\ Executing(p, "Send")
    /\ LET pr == Fetched(p)
           l == Len(pr.stack)
       IN  IF l < 2 \/ pr.stack[l - 1].t # "Pid"
           THEN /\ procs' = [procs EXCEPT ![p] = Panicked(pr)]
                /\ UNCHANGED <<poisoned, sent>>
           ELSE /\ LockFree
                /\ IF poisoned \/ ~HasSender(channels, pr.stack[l - 1].v)
                   THEN /\ procs' = [procs EXCEPT ![p] = Panicked(pr)]
                        /\ poisoned' = TRUE
                        /\ UNCHANGED sent
                   ELSE LET m == Envelope(Instr(p).name, pr.stack[l],
                                          p, Len(sent[p]) + 1,
                                          pr.stack[l - 1].v)
                        IN  /\ procs' = [procs EXCEPT ![p] =
                                   [pr EXCEPT !.status = "sending",
                                              !.stack = SubSeq(@, 1, l - 2),
                                              !.pending = << m >>]]
                            /\ sent' = [sent EXCEPT ![p] = Append(@, m)]
                            /\ UNCHANGED poisoned
    /\ UNCHANGED <<prog, debug, next_pid, channels, notify, mailbox, driver_pc,
                   received, assigned>>

\* mutant of HasRoom: the capacity check is off by one
HasRoomOffByOne(queue) == Len(queue) <= Capacity

\* the bounded channel has a free slot
HasRoom(queue) == Len(queue) < Capacity

\* mutant of Enqueue: the message goes to the front of the queue
EnqueueFront(queue, m) == << m >> \o queue

\* the channel's queue after a completed send
Enqueue(queue, m) == Append(queue, m)

\* sender.send(message).await: Err once the Receiver is dropped (panic
\* "uhoh"); otherwise it completes when the queue has room, and waits while
\* it has none
SendDeliver(p) ==
    /\ p \in DOMAIN procs /\ procs[p].status = "sending"
    /\ LET m == procs[p].pending[1] IN
       IF ReceiverDropped(m.to)
       THEN /\ procs' = [procs EXCEPT ![p] = Panicked(@)]
            /\ UNCHANGED mailbox
       ELSE /\ HasRoom(mailbox[m.to])
            /\ mailbox' = [mailbox EXCEPT ![m.to] = Enqueue(@, m)]
            /\ procs' = [procs EXCEPT ![p].status = "running",
                                      ![p].pending = << >>]
    /\ UNCHANGED <<prog, debug, next_pid, channels, notify, poisoned, driver_pc,
                   sent, received, assigned>>

-----------------------------------------------------------------------------
(* vm.rs VM::run: the driver *)

\* let pid = self.spawn_process("init", vec![])
RunSpawnInit ==
    /\ driver_pc = "start"
    /\ spawn_process("init", << >>, procs)
    /\ driver_pc' = "get_notify"
    /\ UNCHANGED <<prog, debug, notify, poisoned>>

\* let notify = self.0.lock().unwrap().process_exited.clone()
RunGetNotify ==
    /\ driver_pc = "get_notify"
    /\ LockFree
    /\ driver_pc' = IF poisoned THEN "panicked" ELSE "check"
    /\ UNCHANGED <<prog, debug, next_pid, channels, notify, poisoned, procs,
                   mailbox, sent, received, assigned>>

\* while !self.0.lock().unwrap().channels.is_empty()
RunCheck ==
    /\ driver_pc = "check"
    /\ LockFree
    /\ driver_pc' = IF poisoned THEN "panicked"
                    ELSE IF IsEmpty(channels) THEN "done"
                    ELSE "poll"
    /\ UNCHANGED <<prog, debug, next_pid, channels, notify, poisoned, procs,
                   mailbox, sent, received, assigned>>

\* notify.notified().await, first poll: a stored permit is consumed and the
\* loop goes round; without one the driver registers as the waiter and
\* sleeps until ExitNotify wakes it
RunPoll ==
    /\ driver_pc = "poll"
    /\ IF notify = "NOTIFIED"
       THEN notify' = "EMPTY" /\ driver_pc' = "check"
       ELSE notify' = "WAITING" /\ driver_pc' = "waiting"
    /\ UNCHANGED <<prog, debug, next_pid, channels, poisoned, procs, mailbox,
                   sent, received, assigned>>

-----------------------------------------------------------------------------

\* VM::new(module), and the build profile
Init ==
    /\ prog \in DOMAIN Programs
    /\ debug \in BOOLEAN
    /\ next_pid = 0
    /\ channels = {}
    /\ notify = "EMPTY"
    /\ poisoned = FALSE
    /\ procs = << >>
    /\ mailbox = << >>
    /\ driver_pc = "start"
    /\ sent = << >>
    /\ received = << >>
    /\ assigned = << >>

Driver == RunSpawnInit \/ RunGetNotify \/ RunCheck \/ RunPoll

Process(p) ==
    \/ StartProcess(p) \/ FetchPastEnd(p)
    \/ PrintInstr(p) \/ PushLiteral(p) \/ Pop(p) \/ Swap(p) \/ Dup(p)
    \/ Jump(p) \/ JumpIfEqual(p) \/ Call(p) \/ Return(p) \/ ExitNotify(p)
    \/ Add(p) \/ Mul(p) \/ Spawn(p) \/ Receive(p) \/ Send(p) \/ SendDeliver(p)

Next == Driver \/ \E p \in Pids : Process(p)

Spec == Init /\ [][Next]_vars

\* the tokio runtime polls every task that can make progress, and run()
FairSpec ==
    /\ Spec
    /\ WF_vars(Driver)
    /\ \A p \in Pids : WF_vars(Process(p))

-----------------------------------------------------------------------------
(* Properties *)

\* run() has returned normally
RunReturned == driver_pc = "done"

\* p is still to run or running: queued by tokio::spawn, interpreting, inside
\* a send, or inside its exit
StillToRunOrRunning(p) ==
    procs[p].status \in {"spawned", "running", "sending", "exiting"}

\* every process spawned so far has gone through its top-level Return
AllReturned ==
    /\ driver_pc # "start"
    /\ \A p \in DOMAIN procs : procs[p].status = "exited"

\* C1: once run() has left its wait loop the registry is empty and no
\* spawned process is still to run or running, whichever of the processes
\* was the last to exit and however late a child was spawned.
C1_RunReturnsOnlyWhenQuiescent ==
    RunReturned =>
        /\ channels = {}
        /\ DOMAIN procs = 0..(next_pid - 1)
        /\ \A p \in DOMAIN procs : ~StillToRunOrRunning(p)

\* run() has returned in the program whose grandchild is spawned while init
\* is returning
C1_Witness ==
    /\ prog = "quiesce"
    /\ RunReturned
    /\ Len(assigned) = 3

\* C2: no lost wake-up.  Under fair scheduling, once every spawned process
\* has gone through its top-level Return, run() returns, wherever the driver
\* stood in its check-then-wait loop when the exits happened.
C2_NoLostWakeup == AllReturned ~> RunReturned

\* the last exit fell between the driver's check (registry not empty) and
\* its wait: the driver is about to poll and the permit is stored
C2_Witness ==
    /\ AllReturned
    /\ driver_pc = "poll"
    /\ notify = "NOTIFIED"
    /\ Len(assigned) >= 3

\* C3: the PIDs spawn_process hands out are 0, 1, 2, ... in the order of the
\* calls, so no two spawns (by run() or by Spawn instructions of concurrent
\* processes) get the same PID and the PID of an exited process is not
\* handed out again; next_pid is the count of PIDs handed out.
C3_PidsUnique ==
    /\ next_pid = Len(assigned)
    /\ \A i \in 1..Len(assigned) : assigned[i] = i - 1
    /\ \A i, j \in 1..Len(assigned) : i # j => assigned[i] # assigned[j]

\* a PID was handed out after the process with PID 0 had exited, and while
\* another process was alive
C3_Witness ==
    /\ Len(assigned) >= 3
    /\ procs[0].status = "exited"
    /\ procs[assigned[Len(assigned)]].status = "spawned"
    /\ \E p \in DOMAIN procs : procs[p].status = "running"

\* p has gone through the registry removal of its top-level Return
Returned(p) == procs[p].status \in {"exiting", "exited"}

\* C4: the registry holds an entry for a PID exactly when that PID has been
\* handed out by spawn_process and its process has not gone through the
\* removal of its top-level Return.  (A task that panicked never returns
\* from its top-level frame, and its entry stays.)
C4_RegistryIffAlive ==
    /\ DOMAIN procs = 0..(next_pid - 1)
    /\ channels = {p \in DOMAIN procs : ~Returned(p)}

\* one process has exited and lost its entry, one is queued and has one
\* already, one is running
C4_Witness ==
    /\ \E p \in DOMAIN procs : procs[p].status = "exited" /\ p \notin channels
    /\ \E p \in DOMAIN procs : procs[p].status = "spawned" /\ p \in channels
    /\ \E p \in DOMAIN procs : procs[p].status = "running" /\ p \in channels

\* the messages A's Send instructions addressed to B, in program order
SentTo(A, B) == SelectSeq(sent[A], LAMBDA m : m.to = B)

\* the messages B's Receive instructions yielded that came from A, in order
ReceivedFrom(B, A) == SelectSeq(received[B], LAMBDA m : m.from = A)

IsPrefix(s, t) == Len(s) <= Len(t) /\ SubSeq(t, 1, Len(s)) = s

\* C5: for every pair (A, B), what B has received from A so far is a prefix
\* of what A has sent to B, in A's program order: m1 is yielded before m2,
\* and m2 is never yielded without m1, whatever other senders interleave.
C5_IntraSenderFifo ==
    \A A, B \in DOMAIN procs : IsPrefix(ReceivedFrom(B, A), SentTo(A, B))

\* PID 0 has received both messages of one sender with a message of the
\* other sender in between
C5_Witness ==
    /\ prog = "fifo"
    /\ 0 \in DOMAIN procs
    /\ \E i, j, k \in 1..Len(received[0]) :
          /\ i < j /\ j < k
          /\ received[0][i].from = received[0][k].from
          /\ received[0][j].from # received[0][i].from
          /\ received[0][i].name = "first"
          /\ received[0][k].name = "second"

Range(s) == {s[i] : i \in 1..Len(s)}

\* the tasks inside sender.send(..).await for B's channel
PendingTo(B) ==
    {q \in DOMAIN procs :
        procs[q].status = "sending" /\ procs[q].pending[1].to = B}

\* (sender, count) of every message a Send instruction addressed to B
SentTags(B) ==
    UNION { {<<A, i>> : i \in {j \in 1..Len(sent[A]) : sent[A][j].to = B}} :
            A \in DOMAIN sent }

\* (sender, count) of every message B has received, holds in its queue, or
\* that a suspended sender still holds for it
HeldTags(B) ==
    {<<m.from, m.seq>> :
        m \in Range(received[B]) \cup Range(mailbox[B])
              \cup {procs[q].pending[1] : q \in PendingTo(B)}}

\* C6: a mailbox never holds more than Capacity messages, and while the
\* recipient is alive every message addressed to it is in exactly one place:
\* received, queued, or still held by its suspended sender (which cannot
\* complete the send while the queue is full).
C6_BackpressureNoLoss ==
    \A B \in DOMAIN procs :
        /\ Len(mailbox[B]) <= Capacity
        /\ ~ReceiverDropped(B) =>
              /\ HeldTags(B) = SentTags(B)
              /\ Len(received[B]) + Len(mailbox[B]) + Cardinality(PendingTo(B))
                    = Cardinality(SentTags(B))
              /\ \A q \in PendingTo(B) :
                    Len(mailbox[B]) = Capacity => ~ENABLED SendDeliver(q)

\* the flooder is suspended on the full mailbox of PID 0 for the second
\* time: it was suspended with 10 queued, PID 0 took one message, the
\* eleventh was enqueued and the twelfth now waits
C6_Witness ==
    /\ prog = "flood"
    /\ 1 \in DOMAIN procs
    /\ Len(mailbox[0]) = Capacity
    /\ Len(received[0]) = 1
    /\ procs[1].status = "sending"
    /\ Len(sent[1]) = Capacity + 2

\* C7: at every instruction boundary the active frame's stack is no longer
\* than the stack_size of the active frame's function.
C7_StackBound ==
    \A p \in DOMAIN procs :
        procs[p].status \in {"running", "sending"} =>
            Len(procs[p].stack) <= StackSize(procs[p])

\* p took a step that did not end in a panic
Stepped(p) ==
    /\ procs'[p] # procs[p]
    /\ procs'[p].status # "panicked"

\* C8: a Call leaves the caller's frame with stack C and next_instr after
\* the Call and starts the callee at 0 with the top arg_count values, in
\* order; a Return with a parent frame resumes that frame with C followed by
\* the callee's stack R; no other step touches the saved frames, so this
\* holds across any depth of calls in between.
C8_CallReturnSymmetry ==
    [][\A p \in DOMAIN procs :
          LET a == procs[p]
              b == procs'[p]
          IN  /\ (Stepped(p) /\ Executing(p, "Call")) =>
                    /\ ButTop(b.frame_stack) = a.frame_stack
                    /\ Top(b.frame_stack).stack \o b.stack = a.stack
                    /\ Len(b.stack) = Module[Instr(p).name].arg_count
                    /\ Top(b.frame_stack).function = a.function
                    /\ Top(b.frame_stack).next_instr = a.next_instr + 1
                    /\ b.function = Instr(p).name
                    /\ b.next_instr = 0
              /\ (Stepped(p) /\ Executing(p, "Return")
                             /\ a.frame_stack # << >>) =>
                    /\ b.frame_stack = ButTop(a.frame_stack)
                    /\ b.stack = Top(a.frame_stack).stack \o a.stack
                    /\ b.function = Top(a.frame_stack).function
                    /\ b.next_instr = Top(a.frame_stack).next_instr
              /\ (Stepped(p) /\ ~Executing(p, "Call")
                             /\ ~Executing(p, "Return")) =>
                    b.frame_stack = a.frame_stack
      ]_vars

\* fib, called from fibproc, has just resumed after its first nested call
\* with its own n below the value the callee returned
C8_Witness ==
    /\ prog = "fib"
    /\ 1 \in DOMAIN procs
    /\ procs[1].status = "running"
    /\ procs[1].function = "fib"
    /\ procs[1].next_instr = 8
    /\ Len(procs[1].frame_stack) = 1
    /\ procs[1].stack = << IntV(FibArg), IntV(1) >>

\* C9: when Spawn pushes the new PID the registry already has that PID's
\* Sender and its empty mailbox, and the child has not run; while the child
\* has not run, a Send to it finds the Sender (unless the mutex has been
\* poisoned by a panic elsewhere) and its delivery enqueues the message.
C9_SpawnRegistersBeforeReturning ==
    [][\A p \in DOMAIN procs :
          LET a == procs[p]
              b == procs'[p]
              l == Len(a.stack)
          IN  /\ (Stepped(p) /\ Executing(p, "Spawn")) =>
                    /\ Top(b.stack) = PidV(next_pid)
                    /\ HasSender(channels', next_pid)
                    /\ procs'[next_pid].status = "spawned"
                    /\ mailbox'[next_pid] = << >>
              /\ (procs'[p] # a /\ Executing(p, "Send") /\ ~poisoned
                    /\ l >= 2 /\ a.stack[l - 1].t = "Pid"
                    /\ a.stack[l - 1].v \in DOMAIN procs
                    /\ procs[a.stack[l - 1].v].status = "spawned") =>
                    /\ b.status = "sending"
                    /\ b.pending[1].to = a.stack[l - 1].v
              /\ (procs'[p] # a /\ a.status = "sending"
                    /\ procs[a.pending[1].to].status = "spawned") =>
                    /\ b.status = "running"
                    /\ mailbox'[a.pending[1].to] =
                          Append(mailbox[a.pending[1].to], a.pending[1])
      ]_vars

\* the parent's message is in the mailbox of a child that has not yet run
C9_Witness ==
    /\ prog = "greet"
    /\ 1 \in DOMAIN procs
    /\ procs[1].status = "spawned"
    /\ Len(mailbox[1]) = 1
    /\ mailbox[1][1].from = 0

\* some process has hit a fatal error
AnyFatal == \E p \in DOMAIN procs : procs[p].status = "panicked"

\* C10: run() returns normally only if every spawned process went through
\* its top-level Return, never once a process has hit a fatal error, and
\* (under fair scheduling) it does return once all of them have.
C10_ReturnsIffAllReturned ==
    /\ [](RunReturned => AllReturned)
    /\ [](AnyFatal => ~RunReturned)
    /\ (AllReturned ~> RunReturned)

\* init called an unknown function, which poisoned the mutex, and run()
\* panicked at its next lock instead of returning
C10_Witness ==
    /\ prog = "badcall"
    /\ 0 \in DOMAIN procs
    /\ procs[0].status = "panicked"
    /\ driver_pc = "panicked"

\* C11: once some process has hit a fatal error, no other process executes
\* a further instruction (all that is left to a process is to die too, or to
\* enter its function without executing anything of it)
\* and the driver then stops waiting for exits.
C11_FatalStopsVM ==
    /\ [][AnyFatal =>
             \A p \in DOMAIN procs :
                \/ procs'[p] = procs[p]
                \/ procs'[p].status = "panicked"
                \/ procs[p].status = "spawned"]_vars
    /\ (AnyFatal ~> driver_pc \in {"done", "panicked"})

\* C12: when Send pops a Pid that has no registry entry, because it was never
\* allocated or because its process has exited, the sender dies at that
\* step, no mailbox changes and nothing is recorded as sent; a process that
\* has died never takes another step.
C12_SendToUnknownPidIsFatal ==
    [][\A p \in DOMAIN procs :
          LET a == procs[p]
              b == procs'[p]
              l == Len(a.stack)
          IN  /\ (b # a /\ Executing(p, "Send") /\ l >= 2
                    /\ a.stack[l - 1].t = "Pid"
                    /\ a.stack[l - 1].v \notin channels) =>
                    /\ b.status = "panicked"
                    /\ b.pending = << >>
                    /\ mailbox' = mailbox
                    /\ sent' = sent
              /\ a.status = "panicked" => b = a
      ]_vars

\* init found no entry for the PID of its child, which had already exited,
\* and died without having sent anything
C12_Witness ==
    /\ prog = "latesend"
    /\ 1 \in DOMAIN procs
    /\ procs[1].status = "exited"
    /\ procs[0].status = "panicked"
    /\ procs[0].next_instr = 3
    /\ sent[0] = << >>
    /\ mailbox[1] = << >>

\* init found no entry for a PID that was never allocated
C12_WitnessNeverAllocated ==
    /\ prog = "badsend"
    /\ 0 \in DOMAIN procs
    /\ procs[0].status = "panicked"
    /\ procs[0].next_instr = 5
    /\ Top(procs[0].stack) = IntV(1)
    /\ 7 \notin DOMAIN procs

\* p is at a Receive with nothing queued while a Sender for it still exists
AtReceiveOnEmpty(p) ==
    /\ Executing(p, "Receive")
    /\ mailbox[p] = << >>
    /\ \/ p \in channels
       \/ \E q \in DOMAIN procs :
             procs[q].status = "sending" /\ procs[q].pending[1].to = p

\* p is inside a Send whose recipient is there and has Capacity messages
AtSendOnFull(p) ==
    /\ procs[p].status = "sending"
    /\ procs[procs[p].pending[1].to].status \notin {"exited", "panicked"}
    /\ Len(mailbox[procs[p].pending[1].to]) >= Capacity

\* p has not ended
Live(p) == procs[p].status \in {"spawned", "running", "sending", "exiting"}

\* C13: a live process cannot take its next step in exactly three
\* situations: it is at a Receive on an empty mailbox, it is in a Send to a
\* full mailbox, or it needs the supervisor lock while another process is
\* inside its exit, and that process can always go on.  In the first two
\* the process is not the one holding the lock.
C13_SuspensionPoints ==
    \A p \in DOMAIN procs :
       Live(p) =>
          /\ (AtReceiveOnEmpty(p) \/ AtSendOnFull(p)) =>
                /\ ~ENABLED Process(p)
                /\ procs[p].status # "exiting"
          /\ (~ENABLED Process(p)
                /\ ~AtReceiveOnEmpty(p) /\ ~AtSendOnFull(p)) =>
                \E h \in DOMAIN procs \ {p} :
                   /\ procs[h].status = "exiting"
                   /\ ENABLED Process(h)

\* the flooder is suspended in a Send to the full mailbox of PID 0 while PID
\* 0 holds the lock inside its exit
C13_Witness ==
    /\ prog = "floodexit"
    /\ 1 \in DOMAIN procs
    /\ AtSendOnFull(1)
    /\ ~ENABLED Process(1)
    /\ procs[0].status = "exiting"

\* the driver leaves "check": it has read the registry
ReadsRegistry == driver_pc = "check" /\ driver_pc' # "check"

\* some process completes its exit: process_exited.notify_one() is called
RaisesNotification ==
    \E p \in DOMAIN procs :
       procs[p].status = "exiting" /\ procs'[p].status = "exited"

\* C14 as stated: whenever the driver reads the registry in its wait loop
\* it is already registered as the waiter of the notification; and a
\* notification with no waiter leaves exactly one permit however many are
\* raised.
C14_RegistersBeforeReading ==
    [][/\ ReadsRegistry => notify = "WAITING"
       /\ (RaisesNotification /\ notify # "WAITING") => notify' = "NOTIFIED"
      ]_vars

\* C14, amended: the driver is registered as the waiter only from its poll
\* of the notification, which comes after the read of the registry, until
\* it is woken, so never at a read; a notification raised with no waiter
\* leaves one permit, however many are raised, and wakes nobody; raised with
\* the driver waiting it wakes the driver and leaves no permit; the poll
\* consumes a permit and goes round to the read instead of waiting.
C14_ReadsThenPollsWithPermit ==
    /\ [](notify = "WAITING" <=> driver_pc = "waiting")
    /\ [][/\ ReadsRegistry =>
                /\ notify # "WAITING"
                /\ notify' = notify
                /\ driver_pc' \in {"poll", "done", "panicked"}
          /\ RaisesNotification =>
                IF notify = "WAITING"
                THEN notify' = "EMPTY" /\ driver_pc' = "check"
                ELSE notify' = "NOTIFIED" /\ driver_pc' = driver_pc
          /\ (driver_pc = "poll" /\ driver_pc' # "poll") =>
                IF notify = "NOTIFIED"
                THEN notify' = "EMPTY" /\ driver_pc' = "check"
                ELSE notify' = "WAITING" /\ driver_pc' = "waiting"
         ]_vars

\* two processes have exited since the driver read a non-empty registry;
\* their notifications left one permit, which the poll is about to consume
C14_Witness ==
    /\ driver_pc = "poll"
    /\ notify = "NOTIFIED"
    /\ Cardinality({p \in DOMAIN procs : procs[p].status = "exited"}) >= 2
    /\ channels # {}

\* p goes from running into its top-level exit
BeginsExit(p) == procs[p].status = "running" /\ procs'[p].status = "exiting"

\* C15: a process exits exactly by a Return with no caller frame left; at
\* that step its value stack is empty and it takes its own PID, and no
\* other, out of the registry without yet raising the notification; the
\* notification is raised in a later step, with the removal already made;
\* no entry leaves the registry in any other way.
C15_ExitProtocol ==
    [][\A p \in DOMAIN procs :
          /\ BeginsExit(p) =>
                /\ Executing(p, "Return")
                /\ procs[p].frame_stack = << >>
                /\ procs[p].stack = << >>
                /\ p \in channels
                /\ channels' = channels \ {p}
                /\ notify' = notify
          /\ (procs[p].status = "exiting" /\ procs'[p].status = "exited") =>
                /\ p \notin channels
                /\ channels' = channels
          /\ procs'[p].status = "exited" =>
                procs[p].status \in {"exiting", "exited"}
          /\ (p \in channels /\ p \notin channels') => BeginsExit(p)
      ]_vars

\* C16: spawn_process leaves no task behind that was given a number of
\* arguments other than the arg_count of its function; a process begins to
\* execute with exactly arg_count values; and the child of a Spawn gets the
\* top arg_count values of its parent's stack, in push order.
C16_ArgCountCheckedAtSpawn ==
    /\ [](\A p \in DOMAIN procs :
             (procs[p].status = "spawned"
                /\ procs[p].function \in DOMAIN Module) =>
                Len(procs[p].stack) = Module[procs[p].function].arg_count)
    /\ [][\A p \in DOMAIN procs :
             LET a == procs[p]
                 l == Len(a.stack)
             IN  /\ (a.status = "spawned" /\ procs'[p].status = "running") =>
                       l = Module[a.function].arg_count
                 /\ (Stepped(p) /\ Executing(p, "Spawn")) =>
                       procs'[next_pid].stack =
                          SubSeq(a.stack,
                                 l - Module[Instr(p).name].arg_count + 1, l)
         ]_vars

\* C17: a Send that goes through pops the payload and the Pid beneath it,
\* leaves the rest of the sender's stack as it was, and holds the message
\* made of the instruction's name and the payload for that Pid; its delivery
\* appends exactly that message to that mailbox and to no other; a Receive
\* takes the head of the process's own mailbox and pushes its name as a Str
\* and then its payload, so the stack grows by two with the payload on top.
C17_MessageRoundTrip ==
    [][\A p \in DOMAIN procs :
          LET a == procs[p]
              b == procs'[p]
              l == Len(a.stack)
          IN  /\ (Executing(p, "Send") /\ b.status = "sending") =>
                    /\ a.stack[l - 1].t = "Pid"
                    /\ b.stack = SubSeq(a.stack, 1, l - 2)
                    /\ b.pending[1].name = Instr(p).name
                    /\ b.pending[1].value = a.stack[l]
                    /\ b.pending[1].to = a.stack[l - 1].v
                    /\ mailbox' = mailbox
              /\ (a.status = "sending" /\ b.status = "running") =>
                    /\ b.stack = a.stack
                    /\ mailbox' = [mailbox EXCEPT ![a.pending[1].to] =
                                      Append(@, a.pending[1])]
              /\ (Stepped(p) /\ Executing(p, "Receive")) =>
                    /\ mailbox[p] # << >>
                    /\ mailbox' = [mailbox EXCEPT ![p] = Tail(@)]
                    /\ b.stack = a.stack \o
                          << [t |-> "Str", v |-> Head(mailbox[p]).name],
                             Head(mailbox[p]).value >>
                    /\ Len(b.stack) = l + 2
      ]_vars

\* the child has received the "hello" that init sent it with payload 5, and
\* init's stack is back to what lay beneath the Pid and the payload
C17_Witness ==
    /\ prog = "greet"
    /\ 1 \in DOMAIN procs
    /\ procs[1].stack = << StrV("hello"), IntV(5) >>
    /\ procs[0].stack = << >>
    /\ sent[0][1].value = IntV(5)
    /\ received[1] = sent[0]

\* C18: a JumpIfEqual(dest, cond) that finds a value on the stack pops
\* exactly that one value; it continues at dest if the value is of the same
\* variant as cond with equal contents, and at the next instruction
\* otherwise, in particular whenever the variants differ.
C18_JumpIfEqual ==
    [][\A p \in DOMAIN procs :
          LET a == procs[p]
              b == procs'[p]
              v == Top(a.stack)
              c == Instr(p).cond
          IN  (Stepped(p) /\ Executing(p, "JumpIfEqual")) =>
                 /\ a.stack # << >>
                 /\ b.stack = ButTop(a.stack)
                 /\ b.next_instr =
                       IF v.t # c.t THEN a.next_instr + 1
                       ELSE IF v.v = c.v THEN Instr(p).dest
                       ELSE a.next_instr + 1
                 /\ b.function = a.function
                 /\ b.frame_stack = a.frame_stack
      ]_vars

\* init has fallen through on Pid(0) against Int(0), on Str("a") against
\* Str("b") and on Int(4) against Str("4"), and has jumped on Int(0) against
\* Int(0), each time losing the value compared
C18_Witness ==
    /\ prog = "jump"
    /\ 0 \in DOMAIN procs
    /\ procs[0].status = "running"
    /\ procs[0].next_instr = 9
    /\ procs[0].stack = << >>

\* C19: a Swap(i) on a stack of more than i values keeps the length, puts
\* the old top at depth i and the old element of depth i on top, and leaves
\* every other element in place, so Swap(0) changes nothing and depth
\* len - 1 is the bottom; and exchanging at the same depth twice gives back
\* any stack a process can have.
C19_SwapExchanges ==
    /\ [][\A p \in DOMAIN procs :
             LET a == procs[p]
                 b == procs'[p]
                 l == Len(a.stack)
                 i == Instr(p).i
             IN  (Stepped(p) /\ Executing(p, "Swap") /\ l > i) =>
                    /\ Len(b.stack) = l
                    /\ \A k \in 1..l :
                          b.stack[k] = IF k = l THEN a.stack[l - i]
                                       ELSE IF k = l - i THEN a.stack[l]
                                       ELSE a.stack[k]
                    /\ i = 0 => b.stack = a.stack
                    /\ b.next_instr = a.next_instr + 1
         ]_vars
    /\ [](\A p \in DOMAIN procs :
             \A i \in 1..(Len(procs[p].stack) - 1) :
                SwapTop(SwapTop(procs[p].stack, i), i) = procs[p].stack)

\* init has exchanged top and bottom of three values twice, getting the
\* original order back, then run Swap(0) and Swap(1)
C19_Witness ==
    /\ prog = "swap"
    /\ 0 \in DOMAIN procs
    /\ procs[0].status = "running"
    /\ procs[0].next_instr = 7
    /\ procs[0].stack = << IntV(1), PidV(3), StrV("b") >>

\* p is inside a Send whose recipient's task has ended
SendsToGone(p) ==
    /\ p \in DOMAIN procs
    /\ procs[p].status = "sending"
    /\ procs[procs[p].pending[1].to].status \in {"exited", "panicked"}

\* C20: a sender whose recipient ends while the Send is under way, whether
\* it was about to deliver or suspended on a full mailbox, is not suspended
\* any more: its next step is there to take, and that step is the fatal
\* failure of the Send, which puts the message in no mailbox; what is queued
\* in a mailbox when its owner has exited stays there, received by no
\* process.
C20_RecipientExitRace ==
    /\ [](\A p \in DOMAIN procs : SendsToGone(p) => ENABLED Process(p))
    /\ [][\A p \in DOMAIN procs :
             /\ (SendsToGone(p) /\ procs'[p] # procs[p]) =>
                   /\ procs'[p].status = "panicked"
                   /\ mailbox' = mailbox
             /\ procs[p].status \in {"exiting", "exited"} =>
                   /\ received'[p] = received[p]
                   /\ \A i \in 1..Len(mailbox[p]) :
                         /\ i <= Len(mailbox'[p])
                         /\ mailbox'[p][i] = mailbox[p][i]
         ]_vars
    /\ [](\A p \in DOMAIN procs :
             \A i \in 1..Len(received[p]) : received[p][i].to = p)

\* the flooder was suspended on the full mailbox of PID 0 when PID 0
\* exited; its Send failed, and the ten messages are still queued
C20_Witness ==
    /\ prog = "floodexit"
    /\ 1 \in DOMAIN procs
    /\ procs[0].status = "exited"
    /\ procs[1].status = "panicked"
    /\ procs[1].pending # << >>
    /\ Len(mailbox[0]) = Capacity
    /\ Len(received[0]) = 1

====
